---- MODULE Spec2Model ----
(***************************************************************************)
(* Distributed transitive closure (graph_par.c): warshall() run by `size`  *)
(* MPI processes, each sweeping its row stripe inside an OpenMP            *)
(* `parallel for` over k, between one MPI_Bcast and one MPI_Reduce, and    *)
(* the part of main() that calls it and prints the result on rank 0.       *)
(*                                                                         *)
(* One MPI process is one "worker" r in 0..size-1. The return value of a   *)
(* collective and of malloc is an input of the run. A collective that      *)
(* returns an error has not taken part in the exchange. The collectives    *)
(* synchronise no more than their data flow demands (MPI allows a          *)
(* collective to return as soon as the caller's part is done): the root    *)
(* of the broadcast may leave it before the others arrive, a receiver      *)
(* waits for the root's data, the root of the reduction waits for every    *)
(* contribution, a contributor may leave at once.                          *)
(*                                                                         *)
(* The OpenMP region shares out the iterations of the k loop between       *)
(* `nthreads` threads in contiguous chunks (the static schedule a          *)
(* `parallel for` without a schedule clause gets); tmp is shared by the    *)
(* threads of one worker, and the assignment of line 66 is a read of its   *)
(* right-hand side followed by a write, two steps other threads can come   *)
(* between.                                                                *)
(***************************************************************************)
EXTENDS Integers, Sequences, FiniteSets, TLC

VARIABLES
    n,          \* matrix size (size_t n)
    size,       \* number of MPI processes (global `size`)
    nthreads,   \* OpenMP threads per process
    a,          \* the input adjacency matrix (valid on rank 0)
    c,          \* rank 0's output buffer
    tmp,        \* tmp[r]: contents of process r's Working Copy
    heap,       \* heap[r]: state of the pointer tmp of process r
    pc,         \* pc[r]: where process r stands
    th,         \* th[r][t]: loop position of thread t of process r
    bcastBuf,   \* the broadcast in flight: what the root sent
    redBuf,     \* redBuf[r]: r's contribution to the reduction
    calls,      \* calls[r]: the collectives r has entered, in order, each with
                \* what it returned
    writes,     \* writes[r]: how many times r has executed the write of line 66
    diag,       \* diag[r]: what r wrote to stderr on an abort path
    printed     \* the matrices rank 0 printed (stdout)

vars == <<n, size, nthreads, a, c, tmp, heap, pc, th, bcastBuf, redBuf,
          calls, writes, diag, printed>>

-----------------------------------------------------------------------------
(* Bounds of the model *)
MaxN == 2
MaxSize == 2
MaxThreads == 2

-----------------------------------------------------------------------------
(* Data *)

Idx(m) == 0 .. (m - 1)

Matrices(m) == [Idx(m) -> [Idx(m) -> 0 .. 1]]

ConstM(m, v) == [i \in Idx(m) |-> [j \in Idx(m) |-> v]]

\* What a freshly malloc'ed, never written n*n buffer may hold.
Garbage(m) == {ConstM(m, 0), ConstM(m, 1)}

Ranks == 0 .. (size - 1)

Threads == 0 .. (nthreads - 1)

\* C's || and && on ints: the result is 0 or 1.
LOr(x, y) == IF x # 0 \/ y # 0 THEN 1 ELSE 0

LAnd(x, y) == IF x # 0 /\ y # 0 THEN 1 ELSE 0

\* Bitwise and, what MPI_BAND would compute in place of MPI_BOR.
RECURSIVE BAnd(_, _)
BAnd(x, y) ==
    IF x = 0 \/ y = 0 THEN 0
    ELSE (IF x % 2 = 1 /\ y % 2 = 1 THEN 1 ELSE 0) + 2 * BAnd(x \div 2, y \div 2)

\* MPI_BOR on MPI_INT: bitwise or.
RECURSIVE Bor(_, _)
Bor(x, y) ==
    IF x = 0 THEN y
    ELSE IF y = 0 THEN x
    ELSE (IF x % 2 = 1 \/ y % 2 = 1 THEN 1 ELSE 0) + 2 * Bor(x \div 2, y \div 2)

\* A stripe rounded up instead of down.
StripeCeil == (n + size - 1) \div size

\* int stripe = n/size
stripe == n \div size

\* An upper bound that makes every worker run to the last row.
RowHiN(r) == n

\* An upper bound that gives the rows left over by the division to the
\* last worker.
RowHiLast(r) == IF r = size - 1 THEN n ELSE stripe * (r + 1)

\* A lower bound that makes every worker start at row 0.
RowLoZero(r) == 0

\* for (i = stripe*rank; i < stripe*(rank+1); i++)
RowLo(r) == stripe * r

RowHi(r) == stripe * (r + 1)

\* Static schedule of the k loop: thread t runs k in KLo(t) .. KHi(t)-1,
\* the first n % nthreads threads getting one iteration more.
KLo(t) ==
    LET q == n \div nthreads
        rem == n % nthreads
    IN IF t < rem THEN t * (q + 1) ELSE rem * (q + 1) + (t - rem) * q

KHi(t) ==
    LET q == n \div nthreads
        rem == n % nthreads
    IN KLo(t) + (IF t < rem THEN q + 1 ELSE q)

\* A thread outside the region, and a thread that has run out of iterations.
Idle == [ph |-> "idle", k |-> 0, i |-> 0, j |-> 0, reg |-> 0]

Ended == [ph |-> "end", k |-> 0, i |-> 0, j |-> 0, reg |-> 0]

\* First cell of thread t of process r, or Ended if it has none.
FirstPos(r, t) ==
    IF KLo(t) < KHi(t) /\ RowLo(r) < RowHi(r)
    THEN [ph |-> "load", k |-> KLo(t), i |-> RowLo(r), j |-> 0, reg |-> 0]
    ELSE Ended

\* The cell after (k, i, j) in the loop nest of lines 63-68.
NextPos(r, t, p) ==
    IF p.j + 1 < n
    THEN [ph |-> "load", k |-> p.k, i |-> p.i, j |-> p.j + 1, reg |-> 0]
    ELSE IF p.i + 1 < RowHi(r)
    THEN [ph |-> "load", k |-> p.k, i |-> p.i + 1, j |-> 0, reg |-> 0]
    ELSE IF p.k + 1 < KHi(t)
    THEN [ph |-> "load", k |-> p.k + 1, i |-> RowLo(r), j |-> 0, reg |-> 0]
    ELSE Ended

\* A right-hand side with || in place of &&.
RelaxOr(m, k, i, j) == LOr(m[i][j], LOr(m[i][k], m[k][j]))

\* Right-hand side of line 66 on matrix m.
Relax(m, k, i, j) == LOr(m[i][j], LAnd(m[i][k], m[k][j]))

\* tmp[i][j] = a[i][j] for all i, j (lines 49-51).
CopyOf(m) == [i \in Idx(n) |-> [j \in Idx(n) |-> m[i][j]]]

\* What the reduction delivers from the send buffers bufs[0..size-1]:
\* cell by cell, MPI_BOR over the ranks.
RECURSIVE BorUpTo(_, _, _, _)
BorUpTo(bufs, r, i, j) ==
    IF r = 0 THEN bufs[0][i][j]
    ELSE Bor(BorUpTo(bufs, r - 1, i, j), bufs[r][i][j])

\* A reduction that delivers the root's own buffer only.
ReducedRootOnly(bufs) == bufs[0]

Reduced(bufs) ==
    [i \in Idx(n) |-> [j \in Idx(n) |-> BorUpTo(bufs, size - 1, i, j)]]

NoMsg == [sent |-> FALSE, m |-> ConstM(n, 0)]

Msg(m) == [sent |-> TRUE, m |-> m]

\* One entry of calls[r]: the collective and the value it returned ("killed":
\* the process died inside it).
Call(op, rc) == [op |-> op, rc |-> rc]

-----------------------------------------------------------------------------
(* Initial states: main() up to the call of warshall (lines 88-165) *)

InitWith(ns, sizes, threads, inputs) ==
    /\ n \in ns
    /\ size \in sizes
    /\ nthreads \in threads
    /\ a \in {m \in inputs : DOMAIN m = Idx(n)}
    /\ c \in Garbage(n)
    /\ tmp = [r \in Ranks |-> ConstM(n, 0)]
    /\ heap = [r \in Ranks |-> "unset"]
    /\ pc = [r \in Ranks |-> "malloc"]
    /\ th = [r \in Ranks |-> [t \in Threads |-> Idle]]
    /\ bcastBuf = NoMsg
    /\ redBuf = [r \in Ranks |-> NoMsg]
    /\ calls = [r \in Ranks |-> <<>>]
    /\ writes = [r \in Ranks |-> 0]
    /\ diag = [r \in Ranks |-> <<>>]
    /\ printed = <<>>

\* Every 0/1 matrix of every size up to MaxN.
AllInputs == UNION {Matrices(m) : m \in 0 .. MaxN}

Init == InitWith(0 .. MaxN, 1 .. MaxSize, 1 .. MaxThreads, AllInputs)

-----------------------------------------------------------------------------
(* Steps of process r *)

\* fprintf(stderr, ...); MPI_Finalize(); exit(1);
Abort(r, msg) ==
    /\ diag' = [diag EXCEPT ![r] = Append(@, msg)]
    /\ pc' = [pc EXCEPT ![r] = "exit1"]

\* Line 38, malloc succeeds: the buffer holds anything.
MallocOk(r) ==
    /\ pc[r] = "malloc"
    /\ \E g \in Garbage(n) : tmp' = [tmp EXCEPT ![r] = g]
    /\ heap' = [heap EXCEPT ![r] = "live"]
    /\ pc' = [pc EXCEPT ![r] = IF r = 0 THEN "init" ELSE "bcast"]
    /\ UNCHANGED <<n, size, nthreads, a, c, th, bcastBuf, redBuf, calls, writes, diag, printed>>

\* Line 38, malloc returns a null pointer.
MallocNull(r) ==
    /\ pc[r] = "malloc"
    /\ heap' = [heap EXCEPT ![r] = "null"]
    /\ pc' = [pc EXCEPT ![r] = IF r = 0 THEN "init" ELSE "bcast"]
    /\ UNCHANGED <<n, size, nthreads, a, c, tmp, th, bcastBuf, redBuf, calls, writes, diag, printed>>

\* Lines 43-48: rank 0 finds tmp == 0.
AllocAbort(r) ==
    /\ pc[r] = "init"
    /\ r = 0
    /\ heap[r] = "null"
    /\ Abort(r, "could not alloc")
    /\ UNCHANGED <<n, size, nthreads, a, c, tmp, heap, th, bcastBuf, redBuf, calls, writes, printed>>

\* Lines 43, 49-51: rank 0 copies a into tmp.
InitCopy(r) ==
    /\ pc[r] = "init"
    /\ r = 0
    /\ heap[r] = "live"
    /\ tmp' = [tmp EXCEPT ![r] = CopyOf(a)]
    /\ pc' = [pc EXCEPT ![r] = "bcast"]
    /\ UNCHANGED <<n, size, nthreads, a, c, heap, th, bcastBuf, redBuf, calls, writes, diag, printed>>

\* A root whose MPI_Bcast returns MPI_SUCCESS and sends nothing.
BcastRootNoSend(r) ==
    /\ pc[r] = "bcast"
    /\ r = 0
    /\ calls' = [calls EXCEPT ![r] = Append(@, Call("Bcast", "MPI_SUCCESS"))]
    /\ pc' = [pc EXCEPT ![r] = "omp_for"]
    /\ UNCHANGED <<n, size, nthreads, a, c, tmp, heap, th, bcastBuf, redBuf, writes, diag, printed>>

\* Line 53 on the root: MPI_Bcast sends tmp and returns MPI_SUCCESS.
BcastRoot(r) ==
    /\ pc[r] = "bcast"
    /\ r = 0
    /\ bcastBuf' = Msg(tmp[r])
    /\ calls' = [calls EXCEPT ![r] = Append(@, Call("Bcast", "MPI_SUCCESS"))]
    /\ pc' = [pc EXCEPT ![r] = "omp_for"]
    /\ UNCHANGED <<n, size, nthreads, a, c, tmp, heap, th, redBuf, writes, diag, printed>>

\* A receive that leaves the buffer as malloc handed it out.
BcastRecvKeep(r) ==
    /\ pc[r] = "bcast"
    /\ r # 0
    /\ bcastBuf.sent
    /\ heap[r] = "live" \/ n = 0
    /\ calls' = [calls EXCEPT ![r] = Append(@, Call("Bcast", "MPI_SUCCESS"))]
    /\ pc' = [pc EXCEPT ![r] = "omp_for"]
    /\ UNCHANGED <<n, size, nthreads, a, c, tmp, heap, th, bcastBuf, redBuf, writes, diag, printed>>

\* Line 53 on another rank: MPI_Bcast overwrites tmp with what the root sent
\* and returns MPI_SUCCESS. With n = 0 nothing is written, whatever tmp is.
BcastRecv(r) ==
    /\ pc[r] = "bcast"
    /\ r # 0
    /\ bcastBuf.sent
    /\ heap[r] = "live" \/ n = 0
    /\ tmp' = [tmp EXCEPT ![r] = bcastBuf.m]
    /\ calls' = [calls EXCEPT ![r] = Append(@, Call("Bcast", "MPI_SUCCESS"))]
    /\ pc' = [pc EXCEPT ![r] = "omp_for"]
    /\ UNCHANGED <<n, size, nthreads, a, c, heap, th, bcastBuf, redBuf, writes, diag, printed>>

\* Line 53 with tmp a null pointer and n > 0 (a rank other than 0, whose
\* tmp nothing checked): the process dies writing through the pointer.
BcastNullCrash(r) ==
    /\ pc[r] = "bcast"
    /\ heap[r] = "null"
    /\ n > 0
    /\ calls' = [calls EXCEPT ![r] = Append(@, Call("Bcast", "killed"))]
    /\ pc' = [pc EXCEPT ![r] = "crashed"]
    /\ UNCHANGED <<n, size, nthreads, a, c, tmp, heap, th, bcastBuf, redBuf, writes, diag, printed>>

\* Lines 53-58: MPI_Bcast returns an error; nothing was sent or received.
BcastErr(r) ==
    /\ pc[r] = "bcast"
    /\ calls' = [calls EXCEPT ![r] = Append(@, Call("Bcast", "MPI_ERR"))]
    /\ Abort(r, "Erreur MPI_Bcast")
    /\ UNCHANGED <<n, size, nthreads, a, c, tmp, heap, th, bcastBuf, redBuf, writes, printed>>

\* Line 62: the parallel region starts, every thread at its first cell.
SweepFork(r) ==
    /\ pc[r] = "omp_for"
    /\ th' = [th EXCEPT ![r] = [t \in Threads |-> FirstPos(r, t)]]
    /\ pc' = [pc EXCEPT ![r] = "sweep"]
    /\ UNCHANGED <<n, size, nthreads, a, c, tmp, heap, bcastBuf, redBuf, calls, writes, diag, printed>>

\* Line 66, the reads: thread t evaluates the right-hand side.
Load(r, t) ==
    /\ pc[r] = "sweep"
    /\ th[r][t].ph = "load"
    /\ LET p == th[r][t]
       IN th' = [th EXCEPT ![r][t] =
                    [p EXCEPT !.ph = "store", !.reg = Relax(tmp[r], p.k, p.i, p.j)]]
    /\ UNCHANGED <<n, size, nthreads, a, c, tmp, heap, pc, bcastBuf, redBuf, calls, writes, diag, printed>>

\* Line 66, the write, and the loop increments of lines 63-65.
Store(r, t) ==
    /\ pc[r] = "sweep"
    /\ th[r][t].ph = "store"
    /\ LET p == th[r][t]
       IN /\ tmp' = [tmp EXCEPT ![r][p.i][p.j] = p.reg]
          /\ th' = [th EXCEPT ![r][t] = NextPos(r, t, p)]
    /\ writes' = [writes EXCEPT ![r] = @ + 1]
    /\ UNCHANGED <<n, size, nthreads, a, c, heap, pc, bcastBuf, redBuf, calls, diag, printed>>

\* A region that ends as soon as one thread has run out of iterations.
SweepJoinNoWait(r) ==
    /\ pc[r] = "sweep"
    /\ \E t \in Threads : th[r][t].ph = "end"
    /\ th' = [th EXCEPT ![r] = [t \in Threads |-> Idle]]
    /\ pc' = [pc EXCEPT ![r] = "reduce"]
    /\ UNCHANGED <<n, size, nthreads, a, c, tmp, heap, bcastBuf, redBuf, calls, writes, diag, printed>>

\* Line 75: the region ends when every thread has run out of iterations.
SweepJoin(r) ==
    /\ pc[r] = "sweep"
    /\ \A t \in Threads : th[r][t].ph = "end"
    /\ th' = [th EXCEPT ![r] = [t \in Threads |-> Idle]]
    /\ pc' = [pc EXCEPT ![r] = "reduce"]
    /\ UNCHANGED <<n, size, nthreads, a, c, tmp, heap, bcastBuf, redBuf, calls, writes, diag, printed>>

\* Lines 76, 82 on a rank other than the root: MPI_Reduce hands tmp over and
\* returns MPI_SUCCESS; tmp is freed and warshall returns.
ReduceSend(r) ==
    /\ pc[r] = "reduce"
    /\ r # 0
    /\ redBuf' = [redBuf EXCEPT ![r] = Msg(tmp[r])]
    /\ calls' = [calls EXCEPT ![r] = Append(@, Call("Reduce", "MPI_SUCCESS"))]
    /\ heap' = [heap EXCEPT ![r] = "freed"]
    /\ pc' = [pc EXCEPT ![r] = "returned"]
    /\ UNCHANGED <<n, size, nthreads, a, c, tmp, th, bcastBuf, writes, diag, printed>>

\* Lines 76, 82 on the root: MPI_Reduce has every contribution, writes their
\* MPI_BOR into c and returns MPI_SUCCESS; tmp is freed and warshall returns.
ReduceRoot(r) ==
    /\ pc[r] = "reduce"
    /\ r = 0
    /\ \A q \in Ranks \ {0} : redBuf[q].sent
    /\ redBuf' = [redBuf EXCEPT ![r] = Msg(tmp[r])]
    /\ c' = Reduced([q \in Ranks |-> IF q = 0 THEN tmp[0] ELSE redBuf[q].m])
    /\ calls' = [calls EXCEPT ![r] = Append(@, Call("Reduce", "MPI_SUCCESS"))]
    /\ heap' = [heap EXCEPT ![r] = "freed"]
    /\ pc' = [pc EXCEPT ![r] = "returned"]
    /\ UNCHANGED <<n, size, nthreads, a, tmp, th, bcastBuf, writes, diag, printed>>

\* An error of MPI_Reduce that is reported but not acted upon.
ReduceErrIgnored(r) ==
    /\ pc[r] = "reduce"
    /\ calls' = [calls EXCEPT ![r] = Append(@, Call("Reduce", "MPI_ERR"))]
    /\ diag' = [diag EXCEPT ![r] = Append(@, "Erreur MPI_Reduce")]
    /\ heap' = [heap EXCEPT ![r] = "freed"]
    /\ pc' = [pc EXCEPT ![r] = "returned"]
    /\ UNCHANGED <<n, size, nthreads, a, c, tmp, th, bcastBuf, redBuf, writes, printed>>

\* Lines 76-81: MPI_Reduce returns an error; nothing was handed over.
ReduceErr(r) ==
    /\ pc[r] = "reduce"
    /\ calls' = [calls EXCEPT ![r] = Append(@, Call("Reduce", "MPI_ERR"))]
    /\ Abort(r, "Erreur MPI_Reduce")
    /\ UNCHANGED <<n, size, nthreads, a, c, tmp, heap, th, bcastBuf, redBuf, writes, printed>>

\* main, lines 166-200: rank 0 prints c; every rank finalizes and returns 0.
Finish(r) ==
    /\ pc[r] = "returned"
    /\ printed' = IF r = 0 THEN Append(printed, c) ELSE printed
    /\ pc' = [pc EXCEPT ![r] = "exit0"]
    /\ UNCHANGED <<n, size, nthreads, a, c, tmp, heap, th, bcastBuf, redBuf, calls, writes, diag>>

Next ==
    \/ \E r \in Ranks : MallocOk(r)
    \/ \E r \in Ranks : MallocNull(r)
    \/ \E r \in Ranks : AllocAbort(r)
    \/ \E r \in Ranks : InitCopy(r)
    \/ \E r \in Ranks : BcastRoot(r)
    \/ \E r \in Ranks : BcastRecv(r)
    \/ \E r \in Ranks : BcastNullCrash(r)
    \/ \E r \in Ranks : BcastErr(r)
    \/ \E r \in Ranks : SweepFork(r)
    \/ \E r \in Ranks : \E t \in Threads : Load(r, t)
    \/ \E r \in Ranks : \E t \in Threads : Store(r, t)
    \/ \E r \in Ranks : SweepJoin(r)
    \/ \E r \in Ranks : ReduceSend(r)
    \/ \E r \in Ranks : ReduceRoot(r)
    \/ \E r \in Ranks : ReduceErr(r)
    \/ \E r \in Ranks : Finish(r)

Spec == Init /\ [][Next]_vars

\* The program is run again, with one process, on the matrix the run just
\* ended printed (main, lines 88-165, reading the previous output).
Rerun ==
    /\ size = 1
    /\ pc[0] = "exit0"
    /\ Len(printed) = 1
    /\ a' = printed[1]
    /\ c' \in Garbage(n)
    /\ tmp' = [r \in Ranks |-> ConstM(n, 0)]
    /\ heap' = [r \in Ranks |-> "unset"]
    /\ pc' = [r \in Ranks |-> "malloc"]
    /\ th' = [r \in Ranks |-> [t \in Threads |-> Idle]]
    /\ bcastBuf' = NoMsg
    /\ redBuf' = [r \in Ranks |-> NoMsg]
    /\ calls' = [r \in Ranks |-> <<>>]
    /\ writes' = [r \in Ranks |-> 0]
    /\ diag' = [r \in Ranks |-> <<>>]
    /\ UNCHANGED <<n, size, nthreads, printed>>

TwiceNext == Next \/ Rerun

\* Runs followed, when they were single-worker runs, by a second run on
\* their output.
TwiceSpec == Init /\ [][TwiceNext]_vars

\* What process r does when nothing fails and it is not kept waiting.
Step(r) ==
    \/ MallocOk(r)
    \/ AllocAbort(r)
    \/ InitCopy(r)
    \/ BcastRoot(r)
    \/ BcastRecv(r)
    \/ BcastNullCrash(r)
    \/ SweepFork(r)
    \/ \E t \in Threads : Load(r, t)
    \/ \E t \in Threads : Store(r, t)
    \/ SweepJoin(r)
    \/ ReduceSend(r)
    \/ ReduceRoot(r)
    \/ Finish(r)

\* Every process is scheduled: a process that can take a step of its code
\* eventually does. Errors are inputs, nothing forces them.
FairSpec == Spec /\ \A r \in 0 .. (MaxSize - 1) : WF_vars(r \in Ranks /\ Step(r))

-----------------------------------------------------------------------------
(* Vocabulary of the properties *)

\* warshall has returned on rank 0: c holds the delivered matrix.
Done0 == pc[0] \in {"returned", "exit0"}

Terminated(r) == pc[r] \in {"exit0", "exit1", "crashed"}

\* There is a path of length 1..len from i to j in m.
RECURSIVE PathWithin(_, _, _, _)
PathWithin(m, i, j, len) ==
    /\ len > 0
    /\ \/ m[i][j] # 0
       \/ \E k \in Idx(n) : m[i][k] # 0 /\ PathWithin(m, k, j, len - 1)

\* The textbook transitive closure: paths of length >= 1 (n steps suffice).
Closure(m) ==
    [i \in Idx(n) |-> [j \in Idx(n) |-> IF PathWithin(m, i, j, n) THEN 1 ELSE 0]]

-----------------------------------------------------------------------------
(* C1 *)

\* C1: with one worker, the matrix delivered on rank 0 is the transitive
\* closure of the input: c[i][j] = 1 exactly when a has a path of length >= 1
\* from i to j.
C1_SingleWorkerClosure == (size = 1 /\ Done0) => c = Closure(a)

\* The same with the parallel region run by one thread.
OneThreadClosure == (size = 1 /\ nthreads = 1 /\ Done0) => c = Closure(a)

-----------------------------------------------------------------------------------------------------------------------------------------------------
(* C2 *)

\* The 3-cycle 0 -> 2 -> 1 -> 0. Its closure is the full matrix; the path
\* 0 -> 2 -> 1 -> 0 needs row 2 relaxed through k = 1, which only the owner
\* of row 2 does.
StaleA ==
    [i \in Idx(3) |-> [j \in Idx(3) |->
        IF <<i, j>> \in {<<0, 2>>, <<2, 1>>, <<1, 0>>} THEN 1 ELSE 0]]

\* The directed 3-cycles: every node has one successor and one predecessor,
\* neither of them itself.
StaleInputs ==
    {m \in Matrices(3) :
        /\ \A i \in Idx(3) : m[i][i] = 0
        /\ \A i \in Idx(3) : Cardinality({j \in Idx(3) : m[i][j] = 1}) = 1
        /\ \A j \in Idx(3) : Cardinality({i \in Idx(3) : m[i][j] = 1}) = 1}

\* Runs on three nodes with one worker or three, one thread each.
StaleInit == InitWith({3}, {1, 3}, {1}, StaleInputs)

StaleSpec == StaleInit /\ [][Next]_vars

\* C2: on the input StaleA (n = 3) the run with one worker delivers the
\* closure, and every run with W = 3 workers (n divisible by W) delivers a
\* matrix that differs from it: cell [0][0] stays 0 because worker 0 reads
\* row 2 as broadcast.
C2_Staleness ==
    (Done0 /\ a = StaleA) =>
        IF size = 1 THEN c = Closure(a)
        ELSE c # Closure(a) /\ c[0][0] = 0 /\ Closure(a)[0][0] = 1

\* A three-worker run on StaleA has delivered its result.
C2_Witness == size = 3 /\ Done0 /\ a = StaleA

\* Whatever the number of workers, a delivered 1 is a path of the input.
StaleSound ==
    Done0 => \A i \in Idx(n), j \in Idx(n) : c[i][j] <= Closure(a)[i][j]

-----
(* C3 *)

\* The delivered matrix is cell-wise >= the input.
OutputDominatesInput ==
    Done0 => \A i \in Idx(n), j \in Idx(n) : c[i][j] >= a[i][j]

\* A step of the sweep never takes a cell of a Working Copy from 1 to 0.
NoBitCleared ==
    \A r \in Ranks : \A i \in Idx(n), j \in Idx(n) :
        (pc[r] = "sweep" /\ tmp[r][i][j] = 1) => tmp'[r][i][j] = 1

\* C3: for every number of workers, every delivered cell is >= the input
\* cell, and during the sweep no cell of a Working Copy goes from 1 to 0.
C3_Monotonicity == [] OutputDominatesInput /\ [][NoBitCleared]_vars

\* With one thread per worker no cell goes from 1 to 0.
OneThreadNoBitCleared == [][nthreads = 1 => NoBitCleared]_vars

-----------------------------------------------------------------------------
(* C4 *)

\* C4: a worker that has left the broadcast with MPI_SUCCESS, and has not
\* yet started its sweep, holds a Working Copy equal cell for cell to the
\* coordinator's input a.
C4_Distribution == \A r \in Ranks : pc[r] = "omp_for" => tmp[r] = a

\* A rank other than 0 has received an input that none of the contents its
\* fresh buffer could have had equals.
C4_Witness ==
    /\ size >= 2
    /\ pc[1] = "omp_for"
    /\ heap[1] = "live"
    /\ a \notin Garbage(n)

-----------------------------------------------------------------------------
(* C5 *)

\* C5: the matrix the reduction delivers on rank 0 is, cell by cell, the
\* logical or over all workers of the Working Copies as their sweeps left
\* them (tmp[r] keeps what the buffer held when it was freed), and each
\* contribution is that Working Copy.
C5_OrReduction ==
    Done0 =>
        /\ \A r \in Ranks : redBuf[r] = Msg(tmp[r])
        /\ \A i \in Idx(n), j \in Idx(n) :
              c[i][j] = IF \E r \in Ranks : tmp[r][i][j] # 0 THEN 1 ELSE 0

\* Two workers whose copies differ, and a result that is neither of them.
C5_Witness ==
    /\ size >= 2
    /\ Done0
    /\ c # tmp[0]
    /\ c # tmp[1]

-----------------------------------------------------------------------------
(* C6 *)

\* The relaxation writes of a complete sweep of worker r.
SweepWrites(r) == n * (RowHi(r) - RowLo(r)) * n

\* C6: a worker writes its Working Copy in the sweep only after its
\* broadcast returned MPI_SUCCESS; the coordinator has its output only when
\* every worker has done all the writes of its n iterations and entered the
\* reduction; and each worker's collectives are a broadcast then a reduction,
\* both of them on a worker that completes.
C6_PhaseOrder ==
    /\ \A r \in Ranks :
          /\ (writes[r] > 0 \/ pc[r] = "sweep") =>
                (Len(calls[r]) >= 1 /\ calls[r][1] = Call("Bcast", "MPI_SUCCESS"))
          /\ Len(calls[r]) <= 2
          /\ Len(calls[r]) >= 1 => calls[r][1].op = "Bcast"
          /\ Len(calls[r]) = 2 => calls[r][2].op = "Reduce"
          /\ pc[r] \in {"returned", "exit0"} => Len(calls[r]) = 2
    /\ Done0 =>
          \A r \in Ranks :
              /\ writes[r] = SweepWrites(r)
              /\ Len(calls[r]) = 2
              /\ \A t \in Threads : th[r][t] = Idle

\* Two workers with rows to relax, and the output delivered.
C6_Witness == size >= 2 /\ Done0 /\ writes[0] > 0 /\ writes[1] > 0

-----------------------------------------------------------------------------
(* C7 *)

\* C7: a worker whose malloc returned a null pointer passes it to no
\* collective, and once it has acted on it, it is on the abort path with the
\* diagnostic written.
C7_AllocFailureFatal ==
    \A r \in Ranks :
        heap[r] = "null" =>
            /\ calls[r] = <<>>
            /\ Terminated(r) => (pc[r] = "exit1" /\ diag[r] = <<"could not alloc">>)

\* The coordinator does check its pointer.
CoordinatorAllocChecked ==
    heap[0] = "null" =>
        /\ calls[0] = <<>>
        /\ pc[0] \in {"init", "exit1"}
        /\ pc[0] = "exit1" => diag[0] = <<"could not alloc">>

-----------------------------------------------------------------------------
(* C8 *)

\* A collective of r has returned an error.
Failed(r) == \E x \in 1 .. Len(calls[r]) : calls[r][x].rc = "MPI_ERR"

-----------------------------------------------------------------------------
(* C9 *)

\* C9: once a worker has taken an abort path, every worker eventually
\* terminates.
C9_AbortTerminatesGroup ==
    (\E r \in Ranks : pc[r] = "exit1") ~> (\A r \in Ranks : Terminated(r))

-----------------------------------------------------------------------------
(* C10 *)

\* C10: a single-worker run on the output of a single-worker run delivers
\* that output unchanged.
C10_Idempotence ==
    (size = 1 /\ Len(printed) = 2) => printed[2] = printed[1]

\* The same with the parallel region run by one thread.
OneThreadIdempotence ==
    (size = 1 /\ nthreads = 1 /\ Len(printed) = 2) => printed[2] = printed[1]

-----------------------------------------------------------------------------
(* C11 *)

\* No malloc has returned a null pointer and no collective an error.
FailureFree ==
    \A r \in Ranks : heap[r] # "null" /\ ~Failed(r)

AllExit0 == \A r \in Ranks : pc[r] = "exit0"

\* Every cell a thread is about to read or write lies inside the matrix.
InRange ==
    \A r \in Ranks : \A t \in Threads :
        th[r][t].ph \in {"load", "store"} =>
            /\ th[r][t].k \in Idx(n)
            /\ th[r][t].i \in Idx(n)
            /\ th[r][t].j \in Idx(n)

\* With n <= 1: no access out of range, no abort or crash while nothing
\* failed, and C[0][0] = 1 delivered for the 1x1 self-loop.
BoundarySafe ==
    n <= 1 =>
        /\ InRange
        /\ FailureFree => \A r \in Ranks : pc[r] \notin {"exit1", "crashed"}
        /\ (Done0 /\ n = 1 /\ a[0][0] = 1) => c[0][0] = 1

EmptyCompletes == n = 0 /\ size >= 2 /\ AllExit0 /\ printed = <<a>>

-----------------------------------------------------------------------------
(* C12 *)

\* Thread t of worker r is inside the loop nest.
Active(r, t) == th[r][t].ph \in {"load", "store"}

\* Worker r is in step with iteration k: every write of the iterations
\* before k is done and no write of an iteration after k has been made.
InStepWith(r, k) ==
    /\ writes[r] >= k * (RowHi(r) - RowLo(r)) * n
    /\ writes[r] <= (k + 1) * (RowHi(r) - RowLo(r)) * n

\* C12: on each worker the k iterations run one after the other in
\* increasing order: a thread working on iteration k finds all writes of
\* iterations 0..k-1 done and none of a later iteration made, and two threads
\* of one worker are never inside different iterations.
C12_SequentialK ==
    \A r \in Ranks : \A t \in Threads :
        Active(r, t) =>
            /\ InStepWith(r, th[r][t].k)
            /\ \A u \in Threads : Active(r, u) => th[r][u].k = th[r][t].k

\* The same with the parallel region run by one thread.
OneThreadSequentialK == nthreads = 1 => C12_SequentialK

-----------------------------------------------------------------------------
(* C13 *)

\* The cells of tmp the next step of thread t of worker r touches: the cell
\* it stores to, or the cells the right-hand side of line 66 reads.
Touches(r, t) ==
    LET p == th[r][t]
    IN IF p.ph = "store" THEN {<<p.i, p.j>>}
       ELSE IF p.ph = "load" THEN {<<p.i, p.j>>, <<p.i, p.k>>, <<p.k, p.j>>}
       ELSE {}

\* C13: within one worker no cell of tmp is about to be written by one
\* thread while another thread of that worker is about to write or read it.
C13_NoWriteAliasing ==
    \A r \in Ranks : \A t \in Threads, u \in Threads :
        (t # u /\ th[r][t].ph = "store") =>
            Touches(r, t) \cap Touches(r, u) = {}

\* Processes share no memory: the claim holds trivially with one thread.
OneThreadNoAliasing == nthreads = 1 => C13_NoWriteAliasing

-----------------------------------------------------------------------------
(* C14 *)

\* The rows [r*stripe, (r+1)*stripe) of worker r.
Stripe(r) == {i \in Idx(n) : r * (n \div size) <= i /\ i < (r + 1) * (n \div size)}

\* C14: from the end of its broadcast to its reduction, the Working Copy of
\* worker r equals the broadcast input in every row outside r's stripe.
C14_SweepFrame ==
    \A r \in Ranks :
        pc[r] \in {"omp_for", "sweep", "reduce"} =>
            \A i \in Idx(n) \ Stripe(r) : tmp[r][i] = a[i]

\* Worker 1 has finished a sweep that changed its own stripe.
C14_Witness ==
    /\ size >= 2
    /\ pc[1] = "reduce"
    /\ \E i \in Stripe(1) : tmp[1][i] # a[i]

-----------------------------------------------------------------------------
(* C15 *)

\* The directed cycles 0 -> 1 -> ... -> m-1 -> 0 and its reverse, for
\* m = 1..4 nodes.
CycleInputs ==
    UNION {{[i \in Idx(m) |-> [j \in Idx(m) |-> IF j = (i + 1) % m THEN 1 ELSE 0]],
            [i \in Idx(m) |-> [j \in Idx(m) |-> IF i = (j + 1) % m THEN 1 ELSE 0]]} :
           m \in 1 .. 4}

\* Runs of two or three workers on one to four nodes, and of two workers of
\* two threads each on three nodes.
StripeInit ==
    \/ InitWith(1 .. 4, {2, 3}, {1}, CycleInputs)
    \/ InitWith({3}, {2}, {2}, CycleInputs)

StripeSpec == StripeInit /\ [][Next]_vars

\* The interval [r*stripe, (r+1)*stripe) of the integers.
Interval(r) == (r * stripe) .. ((r + 1) * stripe - 1)

\* C15: with stripe = n / size, the intervals [r*stripe, (r+1)*stripe) of
\* the workers are pairwise disjoint and inside [0, n), their union is
\* [0, n) when size divides n, and a worker only ever works on rows of its
\* own interval.
C15_RowOwnership ==
    /\ \A r \in Ranks, q \in Ranks : r # q => Interval(r) \cap Interval(q) = {}
    /\ \A r \in Ranks : Interval(r) \subseteq Idx(n)
    /\ n % size = 0 => UNION {Interval(r) : r \in Ranks} = Idx(n)
    /\ \A r \in Ranks : \A t \in Threads : Active(r, t) => th[r][t].i \in Interval(r)

\* Three workers, one row each, all of them inside their sweeps.
C15_Witness ==
    /\ size = 3
    /\ n = 3
    /\ \A r \in Ranks : pc[r] = "sweep" /\ writes[r] > 0

-----------------------------------------------------------------------------
(* C16 *)

\* The rows [size*(n/size), n) that the division leaves over.
Remainder == {i \in Idx(n) : i >= size * stripe}

\* C16: when size does not divide n (size > n included), no worker ever
\* works on a row of [size*(n/size), n), and the rows of that range in the
\* matrix delivered on rank 0 are the rows of the input.
C16_UnevenDivision ==
    n % size # 0 =>
        /\ \A r \in Ranks : \A t \in Threads :
               Active(r, t) => th[r][t].i \notin Remainder
        /\ Done0 => \A i \in Remainder : c[i] = a[i]

\* Three nodes on two workers: row 2 is delivered as it was given although
\* the closure has more bits in it.
C16_Witness ==
    /\ n = 3
    /\ size = 2
    /\ Done0
    /\ Remainder = {2}
    /\ c[2] = a[2]
    /\ Closure(a)[2] # a[2]

\* More workers than nodes: every row is left over.
MoreWorkersThanNodes == n = 2 /\ size = 3 /\ Done0 /\ c = a /\ Closure(a) # a

-----------------------------------------------------------------------------
(* C17 *)

\* C17: between broadcast and reduction every cell of a worker's copy is >=
\* the broadcast cell; and in the matrix delivered on rank 0 every row owned
\* by a worker r is exactly the row r handed to the reduction, the rows the
\* other workers handed over for it being the broadcast row and cell-wise
\* below r's.
C17_MaskingByOr ==
    /\ \A r \in Ranks : pc[r] \in {"omp_for", "sweep", "reduce"} =>
           \A i \in Idx(n), j \in Idx(n) : tmp[r][i][j] >= a[i][j]
    /\ Done0 =>
           \A r \in Ranks : \A i \in Stripe(r) :
               /\ c[i] = redBuf[r].m[i]
               /\ \A q \in Ranks \ {r} :
                      /\ redBuf[q].m[i] = a[i]
                      /\ \A j \in Idx(n) : redBuf[q].m[i][j] <= redBuf[r].m[i][j]

\* Two workers; worker 1 relaxed a bit into its row, worker 0 handed over
\* the broadcast row, and the delivered row is worker 1's.
C17_Witness ==
    /\ size = 2
    /\ Done0
    /\ \E i \in Stripe(1) :
           /\ redBuf[1].m[i] # a[i]
           /\ redBuf[0].m[i] = a[i]
           /\ c[i] = redBuf[1].m[i]

-----------------------------------------------------------------------------
(* C18 *)

\* C18: for any number of workers, every cell of the matrix delivered on
\* rank 0 is 0 or 1, and a cell that is 1 has a path of length >= 1 in the
\* input behind it: no spurious edge.
C18_Soundness ==
    Done0 =>
        \A i \in Idx(n), j \in Idx(n) :
            /\ c[i][j] \in {0, 1}
            /\ c[i][j] = 1 => PathWithin(a, i, j, n)

\* Two workers deliver an edge that is not in the input and has a path
\* behind it.
C18_Witness ==
    /\ size = 2
    /\ Done0
    /\ \E i \in Idx(n), j \in Idx(n) :
           c[i][j] = 1 /\ a[i][j] = 0 /\ PathWithin(a, i, j, n)

\* Two workers deliver a 0 where the input has no path.
NoPathNoEdge ==
    /\ size = 2
    /\ Done0
    /\ \E i \in Idx(n), j \in Idx(n) : c[i][j] = 0 /\ ~PathWithin(a, i, j, n)

-----------------------------------------------------------------------------
(* C19 *)

\* Worker r has a step to take inside the parallel region.
SweepStepEnabled(r) ==
    \/ ENABLED SweepFork(r)
    \/ \E t \in Threads : ENABLED Load(r, t)
    \/ \E t \in Threads : ENABLED Store(r, t)
    \/ ENABLED SweepJoin(r)

\* Worker r has not ended and has no step to take.
Blocked(r) == ~Terminated(r) /\ ~ENABLED Step(r)

\* A worker inside the sweep always has a step of its own to take; a worker
\* past the sweep has made its n * stripe * n assignments; a worker kept
\* waiting is a receiver inside MPI_Bcast or the root inside MPI_Reduce; and
\* while nothing has failed and some worker has not ended, some worker has a
\* step to take.
ProgressSafe ==
    /\ \A r \in Ranks : pc[r] \in {"omp_for", "sweep"} => SweepStepEnabled(r)
    /\ \A r \in Ranks : pc[r] \in {"reduce", "returned", "exit0"} =>
           writes[r] = n * (RowHi(r) - RowLo(r)) * n
    /\ \A r \in Ranks : Blocked(r) =>
           \/ pc[r] = "bcast" /\ r # 0 /\ ~bcastBuf.sent
           \/ pc[r] = "reduce" /\ r = 0 /\ \E q \in Ranks \ {0} : ~redBuf[q].sent
    /\ (FailureFree /\ ~AllExit0) => \E r \in Ranks : ENABLED Step(r)

\* C19: under fair scheduling a run in which no allocation and no collective
\* fails brings every worker through broadcast, sweep and reduction to exit
\* 0; no worker waits inside the sweep, the broadcast and the reduction are
\* the only places where one waits, and there is no deadlock.
C19_FailureFreeProgress ==
    /\ [] ProgressSafe
    /\ <> (AllExit0 \/ ~FailureFree)

\* Two workers of two threads each on two nodes have all exited with 0 after
\* a run without failure, each with its sweep done.
C19_Witness ==
    /\ n = 2
    /\ size = 2
    /\ nthreads = 2
    /\ FailureFree
    /\ AllExit0
    /\ \A r \in Ranks : writes[r] = 4

\* A receiver is kept waiting inside MPI_Bcast while the root has not sent.
ReceiverWaits == size = 2 /\ FailureFree /\ Blocked(1) /\ pc[1] = "bcast"

\* The root is kept waiting inside MPI_Reduce for its peer, which is still
\* sweeping.
RootWaits == size = 2 /\ FailureFree /\ Blocked(0) /\ pc[0] = "reduce" /\ pc[1] = "sweep"

-----------------------------------------------------------------------------
(* C20 *)

\* The program is run a second time on the same input, with the same number
\* of processes and of threads (main, lines 88-165, reading the same file).
Repeat ==
    /\ AllExit0
    /\ Len(printed) = 1
    /\ c' \in Garbage(n)
    /\ tmp' = [r \in Ranks |-> ConstM(n, 0)]
    /\ heap' = [r \in Ranks |-> "unset"]
    /\ pc' = [r \in Ranks |-> "malloc"]
    /\ th' = [r \in Ranks |-> [t \in Threads |-> Idle]]
    /\ bcastBuf' = NoMsg
    /\ redBuf' = [r \in Ranks |-> NoMsg]
    /\ calls' = [r \in Ranks |-> <<>>]
    /\ writes' = [r \in Ranks |-> 0]
    /\ diag' = [r \in Ranks |-> <<>>]
    /\ UNCHANGED <<n, size, nthreads, a, printed>>

RepeatNext == Next \/ Repeat

\* Two runs, one after the other, on the same input and configuration.
RepeatSpec == Init /\ [][RepeatNext]_vars

\* C20: two runs on the same input, with the same number of workers and the
\* same number of threads, deliver the same matrix, however the workers and
\* the threads of each run were interleaved.
C20_Determinism ==
    Len(printed) = 2 => printed[2] = printed[1]

\* The same with the parallel region run by one thread: the interleaving of
\* the worker processes alone does not change the output.
OneThreadDeterminism ==
    (nthreads = 1 /\ Len(printed) = 2) => printed[2] = printed[1]

\* A single worker of two threads delivers something else than the closure,
\* which is what a single worker of one thread delivers.
ThreadsChangeOutput ==
    (size = 1 /\ nthreads = 2 /\ Len(printed) >= 1) => printed[1] = Closure(a)

====
